---- MODULE Spec2Model ----
(***************************************************************************)
(* Model of olc.py, the OSINT link catalog CLI: the URL normaliser, the    *)
(* whole-file JSON store and the add / edit / rm / find / view commands.   *)
(*                                                                         *)
(* Python strings are sequences of one-character strings, so that prefix   *)
(* tests, urlparse, split, join, lower, the loader's regular expression    *)
(* and the substring search of find are computed character by character.   *)
(* The input alphabet holds letters, digits, blank, newline and the        *)
(* characters  . , : / } ]  ; it holds no ';', no '[' and no control       *)
(* characters, so the params split and the IPv6 checks of urlparse never   *)
(* apply.                                                                  *)
(*                                                                         *)
(* A value used several times is passed as an operator parameter instead   *)
(* of being named by LET, which keeps the definitions small for TLC.       *)
(***************************************************************************)
EXTENDS Integers, Sequences, FiniteSets, TLC

VARIABLES file, clock, ops, last, prev, procs, writer

vars == <<file, clock, ops, last, prev, procs, writer>>

----------------------------------------------------------------------------
(* Bounds *)

\* number of command invocations in one behaviour of Spec
MaxOps == 2

----------------------------------------------------------------------------
(* Python string primitives *)

UpperChars == <<"A","B","C","D","E","F","G","H","I","J","K","L","M",
                "N","O","P","Q","R","S","T","U","V","W","X","Y","Z">>
LowerChars == <<"a","b","c","d","e","f","g","h","i","j","k","l","m",
                "n","o","p","q","r","s","t","u","v","w","x","y","z">>
DigitChars == <<"0","1","2","3","4","5","6","7","8","9">>

\* 1-based position of c in the tuple cs, 0 when absent
IndexIn(cs, c) ==
    IF \E i \in 1..Len(cs) : cs[i] = c THEN CHOOSE i \in 1..Len(cs) : cs[i] = c ELSE 0

\* the lower-case letter of each upper-case letter
ToLower == [c \in {UpperChars[i] : i \in 1..Len(UpperChars)} |->
              LowerChars[IndexIn(UpperChars, c)]]

\* str.lower() on one character
LowerChar(c) == IF c \in DOMAIN ToLower THEN ToLower[c] ELSE c

\* str.lower()
lower(s) == [i \in 1..Len(s) |-> LowerChar(s[i])]

\* s.startswith(p)
StartsWith(s, p) == Len(s) >= Len(p) /\ SubSeq(s, 1, Len(p)) = p

\* first position >= start of a character of the set cs, 0 when there is none
FirstOf(s, cs, start) ==
    IF \E i \in start..Len(s) : s[i] \in cs
    THEN CHOOSE i \in start..Len(s) : s[i] \in cs /\ \A j \in start..(i-1) : s[j] \notin cs
    ELSE 0

\* s.find(c, start) for a one-character c, 1-based; 0 when absent (Python: -1)
FindChar(s, c, start) == FirstOf(s, {c}, start)

\* needle in hay (substring test)
Contains(hay, needle) ==
    \E i \in 0..(Len(hay) - Len(needle)) :
        SubSeq(hay, i + 1, i + Len(needle)) = needle

\* s.split(sep) for a one-character sep: always at least one piece
RECURSIVE split(_, _)
SplitAt(s, sep, i) ==
    IF i = 0 THEN <<s>>
    ELSE <<SubSeq(s, 1, i - 1)>> \o split(SubSeq(s, i + 1, Len(s)), sep)
split(s, sep) == SplitAt(s, sep, FindChar(s, sep, 1))

\* sep.join(list)
RECURSIVE join(_, _)
join(sep, list) ==
    IF Len(list) = 0 THEN <<>>
    ELSE IF Len(list) = 1 THEN list[1]
    ELSE list[1] \o sep \o join(sep, Tail(list))

\* str.strip()
RECURSIVE strip(_)
strip(s) ==
    IF Len(s) = 0 THEN s
    ELSE IF s[1] \in {" ", "\n"} THEN strip(Tail(s))
    ELSE IF s[Len(s)] \in {" ", "\n"} THEN strip(SubSeq(s, 1, Len(s) - 1))
    ELSE s

----------------------------------------------------------------------------
(* urllib.parse.urlparse, as called by normalize_url and extract_domain *)

IsAlpha(c) == IndexIn(UpperChars, c) > 0 \/ IndexIn(LowerChars, c) > 0
IsDigit(c) == IndexIn(DigitChars, c) > 0
IsSchemeChar(c) == IsAlpha(c) \/ IsDigit(c) \/ c \in {"+", "-", "."}

\* urlsplit's scheme step: the text before the first ':' (at position i) is
\* the scheme when it is non-empty, starts with a letter and holds scheme
\* characters only; the result is the position of that ':', or 0
SchemeEndAt(url, i) ==
    IF i > 1 /\ IsAlpha(url[1]) /\ \A j \in 1..(i - 1) : IsSchemeChar(url[j])
    THEN i ELSE 0
SchemeEnd(url) == SchemeEndAt(url, FindChar(url, ":", 1))

\* the path: what precedes the first '?' or '#'
PathUpTo(tail, q) == IF q = 0 THEN tail ELSE SubSeq(tail, 1, q - 1)
PathOf(tail) == PathUpTo(tail, FirstOf(tail, {"?", "#"}, 1))

\* _splitnetloc(url, 2): the netloc ends before the first of '/', '?', '#'
NetlocUpTo(rest, delim) ==
    IF delim = 0 THEN [netloc |-> SubSeq(rest, 3, Len(rest)), path |-> <<>>]
    ELSE [netloc |-> SubSeq(rest, 3, delim - 1),
          path |-> PathOf(SubSeq(rest, delim, Len(rest)))]

SplitRest(rest) ==
    IF StartsWith(rest, <<"/", "/">>)
    THEN NetlocUpTo(rest, FirstOf(rest, {"/", "?", "#"}, 3))
    ELSE [netloc |-> <<>>, path |-> PathOf(rest)]

\* the netloc and path components of urlparse(url)
urlparse(url) == SplitRest(SubSeq(url, SchemeEnd(url) + 1, Len(url)))

HTTP == <<"h","t","t","p",":","/","/">>
HTTPS == <<"h","t","t","p","s",":","/","/">>

\* re.match(r'^https?://', s)
HasHttpPrefix(s) == StartsWith(s, HTTP) \/ StartsWith(s, HTTPS)

WithHttps(s) == IF ~HasHttpPrefix(s) THEN HTTPS \o s ELSE s
FixHost(u, parsed) == IF parsed.netloc = <<>> THEN HTTPS \o parsed.path ELSE u
Reparse(u) == FixHost(u, urlparse(u))

normalize_url(domain_or_url) == Reparse(WithHttps(domain_or_url))

NetlocOrPath(parsed) ==
    IF parsed.netloc # <<>> THEN parsed.netloc ELSE split(parsed.path, "/")[1]

extract_domain(url) == NetlocOrPath(urlparse(url))

----------------------------------------------------------------------------
(* Python values *)

RECURSIVE DigitsVal(_)
DigitsVal(s) ==
    IF Len(s) = 0 THEN 0
    ELSE 10 * DigitsVal(SubSeq(s, 1, Len(s) - 1)) + (IndexIn(DigitChars, s[Len(s)]) - 1)

RECURSIVE StripZeros(_)
StripZeros(s) ==
    IF Len(s) > 0 /\ s[Len(s)] = "0" THEN StripZeros(SubSeq(s, 1, Len(s) - 1)) ELSE s

\* int(s) succeeds: one or more decimal digits (the alphabet has no sign,
\* underscore or surrounding blank)
IntOK(s) == Len(s) > 0 /\ \A i \in 1..Len(s) : IsDigit(s[i])
IntVal(s) == DigitsVal(s)

\* float(s) succeeds: digits with at most one '.', at least one digit.
\* A float is the pair <<integer part, fraction digits without trailing
\* zeros>>, which is exact for the decimal strings of the model.
FloatOK(s) ==
    /\ \A i \in 1..Len(s) : IsDigit(s[i]) \/ s[i] = "."
    /\ Cardinality({i \in 1..Len(s) : s[i] = "."}) <= 1
    /\ \E i \in 1..Len(s) : IsDigit(s[i])
FloatAt(s, dot) ==
    IF dot = 0 THEN <<DigitsVal(s), <<>>>>
    ELSE <<DigitsVal(SubSeq(s, 1, dot - 1)), StripZeros(SubSeq(s, dot + 1, Len(s)))>>
FloatVal(s) == FloatAt(s, FindChar(s, ".", 1))

Zero == <<0, <<>>>>

RECURSIVE IntStr(_)
IntStr(n) == IF n < 10 THEN <<DigitChars[n + 1]>>
             ELSE IntStr(n \div 10) \o <<DigitChars[(n % 10) + 1]>>

\* str(x) of a float and of a bool
StrFloat(f) == IntStr(f[1]) \o <<".">> \o (IF f[2] = <<>> THEN <<"0">> ELSE f[2])
StrBool(b) == IF b THEN <<"T","r","u","e">> ELSE <<"F","a","l","s","e">>

S_true == <<"t","r","u","e">>
S_en == <<"e","n">>
S_free == <<"f","r","e","e">>
S_website == <<"w","e","b","s","i","t","e">>
S_WebsiteFor == <<"W","e","b","s","i","t","e"," ","f","o","r"," ">>

\* argparse namespace: a function from the supplied option names to their
\* values; an option that was not given (None) is not in the domain
Has(args, k) == k \in DOMAIN args
Truthy(args, k) == k \in DOMAIN args /\ args[k] # <<>>
Put(args, k, v) == [x \in DOMAIN args \cup {k} |-> IF x = k THEN v ELSE args[x]]

\* args.k or default
OrElse(args, k, default) ==
    IF k \in DOMAIN args /\ args[k] # <<>> THEN args[k] ELSE default

\* dict.get(k, default)
Get(d, k, default) == IF k \in DOMAIN d THEN d[k] ELSE default

----------------------------------------------------------------------------
(* Storage: load_data and save_data *)

\* position of the first non-blank character after position 1, 0 when none
NextNonBlank(s) ==
    IF \E i \in 2..Len(s) : s[i] # " "
    THEN CHOOSE i \in 2..Len(s) : s[i] # " " /\ \A k \in 2..(i - 1) : s[k] = " "
    ELSE 0

\* re.sub(r',\s*([}\]])', r'\1', content) on the text of one JSON string:
\* json.dump escapes newlines, so inside a string \s* matches blanks only
RECURSIVE StripTrailingCommas(_)
StripFrom(s, j) ==
    IF s[1] = "," /\ j > 0 /\ s[j] \in {"}", "]"}
    THEN <<s[j]>> \o StripTrailingCommas(SubSeq(s, j + 1, Len(s)))
    ELSE <<s[1]>> \o StripTrailingCommas(Tail(s))
StripTrailingCommas(s) ==
    IF Len(s) = 0 THEN s ELSE StripFrom(s, IF s[1] = "," THEN NextNonBlank(s) ELSE 0)

\* what the substitution does to one value of an entry: a string is
\* rewritten, a list of strings element by element; numbers, booleans and
\* ISO timestamps hold no '}' or ']' and are kept
LoadField(k, v) ==
    IF k \in {"link", "name", "description", "type", "language", "cost"}
    THEN StripTrailingCommas(v)
    ELSE IF k \in {"subtypes", "tags", "roles", "data_types"}
    THEN [i \in 1..Len(v) |-> StripTrailingCommas(v[i])]
    ELSE v

LoadEntry(e) == [k \in DOMAIN e |-> LoadField(k, e[k])]

\* the catalog load_data reads from the stored file f
load_data(f) == [i \in 1..Len(f) |-> LoadEntry(f[i])]

\* the file content written for the catalog data: json.dump of strings,
\* lists, booleans and numbers denotes the same values, so the file is held
\* as the catalog it denotes; only load_data rewrites text
save_data(data) == data

\* faulty variant: the file opened for appending: the old content is kept
WriteFile_Append(old, new) == old \o save_data(new)

\* open(DATA_FILE, 'w') truncates: the new content replaces the old one
WriteFile(old, new) == save_data(new)

----------------------------------------------------------------------------
(* Commands *)

NoEntry == <<>>

\* what one invocation did: the status line it printed, the catalog it
\* passed to save_data (when saved), whether analyze_website was called,
\* the entry it built, and the identifier and domain it worked on
Outcome(result, f, saved, classified, entry, link, domain) ==
    [result |-> result, file |-> f, saved |-> saved, classified |-> classified,
     entry |-> entry, link |-> link, domain |-> domain]

\* the identifier add and rm work on: args.link, or the stripped standard
\* input when args.link is missing or empty and stdin is not a terminal
ResolveLink(args, stdin) ==
    IF ~Truthy(args, "link") /\ ~stdin.tty THEN strip(stdin.text)
    ELSE OrElse(args, "link", <<>>)

\* the classifier is asked when none of name, desc and type was given
WantsClassifier(args) ==
    ~Truthy(args, "name") /\ ~Truthy(args, "desc") /\ ~Truthy(args, "type")

\* args after the back-fill from the classifier's answer d
BackFill(args, d) ==
    [k \in DOMAIN args \cup {"name", "desc", "type", "sub", "tags", "roles", "lang",
                             "cost", "account", "data_types", "api", "rating"} |->
       CASE k = "name" -> Get(d, "name", <<>>)
         [] k = "desc" -> Get(d, "description", <<>>)
         [] k = "type" -> Get(d, "type", <<>>)
         [] k = "sub" -> Get(d, "subtypes", <<>>)
         [] k = "tags" -> join(<<",">>, Get(d, "tags", <<>>))
         [] k = "roles" -> join(<<",">>, Get(d, "roles", <<>>))
         [] k = "lang" -> Get(d, "language", S_en)
         [] k = "cost" -> Get(d, "cost", S_free)
         [] k = "account" -> StrBool(Get(d, "requires_account", FALSE))
         [] k = "data_types" -> join(<<",">>, Get(d, "data_types", <<>>))
         [] k = "api" -> StrBool(Get(d, "api_available", FALSE))
         [] k = "rating" -> StrFloat(Get(Get(d, "metrics", <<>>), "rating", Zero))
         [] OTHER -> args[k]]

\* the args add builds the entry from: back-filled when the classifier was
\* asked and returned a non-empty object (ai.ok is false for None)
FinalArgs(args, ai) ==
    IF WantsClassifier(args) /\ ai.ok /\ DOMAIN ai.data # {}
    THEN BackFill(args, ai.data) ELSE args

\* x.split(",") if x else []
SplitOrEmpty(a, k) == IF Truthy(a, k) THEN split(a[k], ",") ELSE <<>>

\* the entry add builds
NewEntry(url, domain, a, t1, t2) ==
    [link |-> url,
     name |-> OrElse(a, "name", domain),
     description |-> OrElse(a, "desc", S_WebsiteFor \o domain),
     type |-> OrElse(a, "type", S_website),
     subtypes |-> OrElse(a, "sub", <<>>),
     tags |-> SplitOrEmpty(a, "tags"),
     roles |-> SplitOrEmpty(a, "roles"),
     language |-> OrElse(a, "lang", S_en),
     cost |-> OrElse(a, "cost", S_free),
     requires_account |-> IF Truthy(a, "account")
                          THEN lower(a["account"]) = S_true ELSE FALSE,
     data_types |-> SplitOrEmpty(a, "data_types"),
     api_available |-> IF Truthy(a, "api") THEN lower(a["api"]) = S_true ELSE FALSE,
     metrics |-> [rating |-> IF Truthy(a, "rating") THEN FloatVal(a["rating"]) ELSE Zero,
                  rating_count |-> IF Truthy(a, "rating_count")
                                   THEN IntVal(a["rating_count"]) ELSE 0],
     date_collected |-> t1,
     date_updated |-> t2]

\* float(args.rating) or int(args.rating_count) raises ValueError
BadNumber(a) ==
    \/ Truthy(a, "rating") /\ ~FloatOK(a["rating"])
    \/ Truthy(a, "rating_count") /\ ~IntOK(a["rating_count"])

\* the domains of the entries of data, in order
Domains(data) == [i \in 1..Len(data) |-> extract_domain(data[i].link)]

\* index of the first of the domains ds equal to d, 0 when none
FirstIndex(ds, d) ==
    IF \E i \in 1..Len(ds) : ds[i] = d
    THEN CHOOSE i \in 1..Len(ds) : ds[i] = d /\ \A j \in 1..(i - 1) : ds[j] # d
    ELSE 0

\* add up to the duplicate check, on the domains ds of the loaded catalog:
\* the identifier, its normalised URL and domain, and how far add got
AddUrl(ds, link, url, domain) ==
    [status |-> IF FirstIndex(ds, domain) # 0 THEN "DuplicateEntry" ELSE "ok",
     link |-> link, url |-> url, domain |-> domain]
AddNormalized(ds, link, url) == AddUrl(ds, link, url, extract_domain(url))
AddLink(ds, link) ==
    IF link = <<>>
    THEN [status |-> "MissingInput", link |-> link, url |-> <<>>, domain |-> <<>>]
    ELSE AddNormalized(ds, link, normalize_url(link))
AddPlan(ds, args, stdin) == AddLink(ds, ResolveLink(args, stdin))

\* add returning early: no identifier, or a duplicate domain
AddFail(f, plan) ==
    Outcome(plan.status, f, FALSE, FALSE, NoEntry, plan.link, plan.domain)

\* add from the entry construction on: a is the final args
AddEntry(data, f, classified, a, plan, t1, t2) ==
    IF BadNumber(a)
    THEN Outcome("ValueError", f, FALSE, classified, NoEntry, plan.link, plan.domain)
    ELSE Outcome("Added", Append(data, NewEntry(plan.url, plan.domain, a, t1, t2)),
                 TRUE, classified, NewEntry(plan.url, plan.domain, a, t1, t2),
                 plan.link, plan.domain)

\* add after the duplicate check: the classifier, the entry, the save.  ai
\* is what analyze_website returns, t1 and t2 the readings of datetime.now()
AddFinish(data, f, args, plan, ai, t1, t2) ==
    AddEntry(data, f, WantsClassifier(args), FinalArgs(args, ai), plan, t1, t2)

AddRun(data, f, args, plan, ai, t1, t2) ==
    IF plan.status # "ok" THEN AddFail(f, plan)
    ELSE AddFinish(data, f, args, plan, ai, t1, t2)
AddLoaded(data, f, args, stdin, ai, t1, t2) ==
    AddRun(data, f, args, AddPlan(Domains(data), args, stdin), ai, t1, t2)

\* one whole run of add on the stored file f
add(f, args, stdin, ai, t1, t2) == AddLoaded(load_data(f), f, args, stdin, ai, t1, t2)

\* faulty variant: edit stamping both dates
EditEntry_Restamp(e, a, t) ==
    [e EXCEPT !.name = OrElse(a, "name", e.name), !.date_collected = t,
              !.date_updated = t]

\* the in-place overwrites of edit on the matching entry e
EditEntry(e, a, t) ==
    [link |-> e.link,
     name |-> OrElse(a, "name", e.name),
     description |-> OrElse(a, "desc", e.description),
     type |-> OrElse(a, "type", e.type),
     subtypes |-> OrElse(a, "sub", e.subtypes),
     tags |-> IF Truthy(a, "tags") THEN split(a["tags"], ",") ELSE e.tags,
     roles |-> IF Truthy(a, "roles") THEN split(a["roles"], ",") ELSE e.roles,
     language |-> OrElse(a, "lang", e.language),
     cost |-> OrElse(a, "cost", e.cost),
     requires_account |-> IF Truthy(a, "account")
                          THEN lower(a["account"]) = S_true ELSE e.requires_account,
     data_types |-> e.data_types,
     api_available |-> IF Truthy(a, "api")
                       THEN lower(a["api"]) = S_true ELSE e.api_available,
     metrics |-> [rating |-> IF Truthy(a, "rating")
                             THEN FloatVal(a["rating"]) ELSE e.metrics.rating,
                  rating_count |-> IF Truthy(a, "rating_count")
                                   THEN IntVal(a["rating_count"])
                                   ELSE e.metrics.rating_count],
     date_collected |-> e.date_collected,
     date_updated |-> t]

\* faulty variant: edit saving after each overwrite: the name is stored although
\* the numeric conversion fails afterwards
EditAt_SaveBeforeConvert(data, f, args, domain, i, t) ==
    IF i = 0 THEN Outcome("NotFound", f, FALSE, FALSE, NoEntry, args["link"], domain)
    ELSE IF BadNumber(args)
    THEN Outcome("ValueError",
                 [data EXCEPT ![i].name = OrElse(args, "name", data[i].name)], TRUE,
                 FALSE, NoEntry, args["link"], domain)
    ELSE Outcome("Updated", [data EXCEPT ![i] = EditEntry(data[i], args, t)], TRUE,
                 FALSE, EditEntry(data[i], args, t), args["link"], domain)

\* edit on the first matching entry, at index i (0: none).  A ValueError
\* from float() or int() leaves the loop before save_data.
EditAt(data, f, args, domain, i, t) ==
    IF i = 0 THEN Outcome("NotFound", f, FALSE, FALSE, NoEntry, args["link"], domain)
    ELSE IF BadNumber(args)
    THEN Outcome("ValueError", f, FALSE, FALSE, NoEntry, args["link"], domain)
    ELSE Outcome("Updated", [data EXCEPT ![i] = EditEntry(data[i], args, t)], TRUE,
                 FALSE, EditEntry(data[i], args, t), args["link"], domain)

\* the domain edit and view look for
SearchDomain(link) == extract_domain(normalize_url(link))

EditDomain(data, f, args, domain, t) ==
    EditAt(data, f, args, domain, FirstIndex(Domains(data), domain), t)

\* one whole run of edit on the stored file f; t is the reading of
\* datetime.now()
edit(f, args, t) == EditDomain(load_data(f), f, args, SearchDomain(args["link"]), t)

\* the entries of data whose domain (ds[i]) differs from d, in order
RECURSIVE Others(_, _, _)
Others(data, ds, d) ==
    IF Len(data) = 0 THEN <<>>
    ELSE (IF ds[1] # d THEN <<data[1]>> ELSE <<>>) \o Others(Tail(data), Tail(ds), d)

RmKeep(data, new_data, f, link, domain) ==
    IF Len(new_data) = Len(data)
    THEN Outcome("NotFound", f, FALSE, FALSE, NoEntry, link, domain)
    ELSE Outcome("Deleted", new_data, TRUE, FALSE, NoEntry, link, domain)

RmDomain(data, ds, f, link, domain) ==
    RmKeep(data, Others(data, ds, domain), f, link, domain)

RmLink(data, ds, f, link) ==
    IF link = <<>>
    THEN Outcome("MissingInput", f, FALSE, FALSE, NoEntry, link, <<>>)
    ELSE RmDomain(data, ds, f, link, SearchDomain(link))

RmLoaded(data, ds, f, args, stdin) == RmLink(data, ds, f, ResolveLink(args, stdin))

\* one whole run of rm on the stored file f
RmData(data, f, args, stdin) == RmLoaded(data, Domains(data), f, args, stdin)
rm(f, args, stdin) == RmData(load_data(f), f, args, stdin)

\* the text find searches in one entry: its fields, lower-cased
Haystacks(e) ==
    {lower(e.name), lower(e.link), lower(extract_domain(e.link)),
     lower(e.description), lower(e.type), lower(join(<<" ">>, e.subtypes)),
     lower(join(<<" ">>, e.tags)), lower(join(<<" ">>, e.roles))}

\* faulty variant: find searching the name only
Matches_NameOnly(e, keyword) == Contains(lower(e.name), keyword)

Matches(e, keyword) == \E h \in Haystacks(e) : Contains(h, keyword)

RECURSIVE Hits(_, _)
Hits(data, keyword) ==
    IF Len(data) = 0 THEN <<>>
    ELSE (IF Matches(data[1], keyword) THEN <<data[1]>> ELSE <<>>)
           \o Hits(Tail(data), keyword)

\* the result rows of find on the stored file f, in catalog order
find(f, query) == Hits(load_data(f), lower(query))

ViewAt(data, f, link, domain, i) ==
    Outcome(IF i = 0 THEN "NotFound" ELSE "Found", f, FALSE, FALSE,
            IF i = 0 THEN NoEntry ELSE data[i], link, domain)

ViewLoaded(data, ds, f, link, domain) ==
    ViewAt(data, f, link, domain, FirstIndex(ds, domain))

ViewData(data, f, link) == ViewLoaded(data, Domains(data), f, link, SearchDomain(link))

\* view: the entry shown for the identifier, or "NotFound"
view_details(f, link) == ViewData(load_data(f), f, link)

----------------------------------------------------------------------------
(* Inputs *)

L_a == <<"a">>
L_http_a_p == <<"h","t","t","p",":","/","/","a","/","p">>
L_slash == <<"/">>
L_ac == <<"a",",","}">>
L_ac2 == <<"a","}">>
L_empty == <<>>

\* identifiers given with --link
Links == {L_a, L_http_a_p, L_slash, L_ac, L_ac2}
ViewLinks == (Links \ {L_slash}) \cup {L_empty}

TTY == [tty |-> TRUE, text |-> <<>>]
Piped(text) == [tty |-> FALSE, text |-> text]

NoArgs == <<>>

S_n == <<"n">>
S_x == <<"x">>
S_xy == <<"x",",","y">>
S_45 == <<"4",".","5">>
S_3 == <<"3">>
S_paid == <<"p","a","i","d">>

\* option sets given besides the link
A_name == [name |-> S_n]
A_tags == [tags |-> S_xy]
A_badrating == [name |-> S_n, rating |-> S_x]
A_badcount == [rating_count |-> S_45]
A_emptyname == [name |-> <<>>, cost |-> S_paid]
A_all == [name |-> S_n, desc |-> <<"d",","," ","]">>, type |-> <<"t">>,
          sub |-> <<S_x>>, tags |-> S_xy, roles |-> S_x, lang |-> <<"f","r">>,
          cost |-> S_paid, account |-> <<"T","r","u","e">>,
          api |-> S_true, rating |-> S_45, rating_count |-> S_3]

EditFieldArgs == {A_name, A_tags, A_badrating, A_badcount, A_emptyname, A_all}
AddFieldArgs == {A_tags, A_badrating, A_badcount, Put(A_all, "data_types", S_xy)}

WithLink(a, l) == Put(a, "link", l)

\* command lines of add and rm: a link alone, a link with options, or no
\* link with standard input a terminal or a pipe
NoLinkInputs ==
    {[args |-> NoArgs, stdin |-> TTY],
     [args |-> NoArgs, stdin |-> Piped(<<" ","a","b","\n">>)]}
RmInputs ==
    {[args |-> WithLink(NoArgs, l), stdin |-> TTY] : l \in Links} \cup NoLinkInputs
AddInputs ==
    (RmInputs \ {[args |-> WithLink(NoArgs, L_ac2), stdin |-> TTY]}) \cup {[args |-> WithLink(a, L_a), stdin |-> TTY] : a \in AddFieldArgs}
\* edit and view require --link
EditInputs ==
    {WithLink(NoArgs, l) : l \in ViewLinks}
      \cup {WithLink(a, L_a) : a \in EditFieldArgs}
Queries == {L_a, <<"A">>, L_ac, L_empty}

\* what analyze_website returns: None on failure, else the parsed object
\* (here without the optional keys roles, language and api_available)
AiNone == [ok |-> FALSE, data |-> <<>>]
AiAnswer == [ok |-> TRUE,
             data |-> [name |-> <<"c">>, description |-> <<"c","d">>,
                       type |-> <<"c","t">>, subtypes |-> <<<<"c","s">>>>,
                       tags |-> <<<<"c","1">>, <<"c","2">>>>,
                       cost |-> S_paid, requires_account |-> TRUE,
                       data_types |-> <<<<"c","y">>>>,
                       metrics |-> [rating |-> <<4, <<>>>>, rating_count |-> 0]]]
AiOutcomes == {AiNone, AiAnswer}

\* datetime.now() advances by 0 or 1 between two readings
Ticks == {0, 1}
\* the advance before the first and before the second reading of add: the
\* clock ticks at most once during one invocation
AddTicks == {d \in Ticks \X Ticks : d[1] = 0 \/ d[2] = 0}

\* catalogs left by earlier invocations
Seed(f, l) == add(f, WithLink(NoArgs, l), TTY, AiNone, 0, 0).file
InitCatalogs == {<<>>, Seed(<<>>, L_a), Seed(Seed(<<>>, L_ac2), L_ac)}

NoLast == [op |-> "none", args |-> NoArgs, stdin |-> TTY, result |-> "none",
           saved |-> FALSE, classified |-> FALSE, entry |-> NoEntry,
           link |-> <<>>, domain |-> <<>>, results |-> <<>>]

Record(op, args, stdin, r, results) ==
    [op |-> op, args |-> args, stdin |-> stdin, result |-> r.result,
     saved |-> r.saved, classified |-> r.classified, entry |-> r.entry,
     link |-> r.link, domain |-> r.domain, results |-> results]

----------------------------------------------------------------------------
(* Sequential use: one invocation at a time *)

Init ==
    /\ file \in InitCatalogs
    /\ clock = 0
    /\ ops = 0
    /\ last = NoLast
    /\ prev = file
    /\ procs = <<>>
    /\ writer = 0

\* the effect of one invocation with outcome r; now is the last clock
\* reading it made
Commit(op, args, stdin, r, results, now) ==
    /\ file' = IF r.saved THEN WriteFile(file, r.file) ELSE file
    /\ prev' = file
    /\ clock' = IF r.saved THEN now ELSE clock
    /\ ops' = ops + 1
    /\ last' = Record(op, args, stdin, r, results)
    /\ UNCHANGED <<procs, writer>>

\* the classifier is reached, and its answer drawn, only when add asks it
AiChoices(args) == IF WantsClassifier(args) THEN AiOutcomes ELSE {AiNone}

\* add past its early returns: the clock is read only when float() and
\* int() have succeeded
AddOk(data, in, plan) ==
    \E ai \in AiChoices(in.args) :
      IF BadNumber(FinalArgs(in.args, ai))
      THEN Commit("add", in.args, in.stdin,
                  AddFinish(data, file, in.args, plan, ai, clock, clock), <<>>, clock)
      ELSE \E d \in AddTicks :
             Commit("add", in.args, in.stdin,
                    AddFinish(data, file, in.args, plan, ai,
                              clock + d[1], clock + d[1] + d[2]),
                    <<>>, clock + d[1] + d[2])

Add ==
    /\ ops < MaxOps
    /\ \E data \in {load_data(file)} : \E ds \in {Domains(data)} :
         \E in \in AddInputs : \E plan \in {AddPlan(ds, in.args, in.stdin)} :
           IF plan.status # "ok"
           THEN Commit("add", in.args, in.stdin, AddFail(file, plan), <<>>, clock)
           ELSE AddOk(data, in, plan)

Edit ==
    /\ ops < MaxOps
    /\ \E data \in {load_data(file)} : \E ds \in {Domains(data)} :
         \E a \in EditInputs : \E domain \in {SearchDomain(a["link"])} :
           \E i \in {FirstIndex(ds, domain)} :
             IF i = 0 \/ BadNumber(a)
             THEN Commit("edit", a, TTY, EditAt(data, file, a, domain, i, clock),
                         <<>>, clock)
             ELSE \E d \in Ticks :
                    Commit("edit", a, TTY, EditAt(data, file, a, domain, i, clock + d),
                           <<>>, clock + d)

Rm ==
    /\ ops < MaxOps
    /\ \E data \in {load_data(file)} : \E ds \in {Domains(data)} :
         \E in \in RmInputs :
           Commit("rm", in.args, in.stdin,
                  RmLoaded(data, ds, file, in.args, in.stdin), <<>>, clock)

FoundOrNot(rows, q) ==
    Outcome(IF rows = <<>> THEN "NoResults" ELSE "Results", file, FALSE, FALSE,
            NoEntry, q, <<>>)

Find ==
    /\ ops < MaxOps
    /\ \E data \in {load_data(file)} :
         \E q \in Queries : \E rows \in {Hits(data, lower(q))} :
           Commit("find", NoArgs, TTY, FoundOrNot(rows, q), rows, clock)

View ==
    /\ ops < MaxOps
    /\ \E data \in {load_data(file)} : \E ds \in {Domains(data)} :
         \E l \in ViewLinks :
           Commit("view", WithLink(NoArgs, l), TTY,
                  ViewLoaded(data, ds, file, l, SearchDomain(l)), <<>>, clock)

Next == Add \/ Edit \/ Rm \/ Find \/ View

Spec == Init /\ [][Next]_vars

----------------------------------------------------------------------------
(* Concurrent use: two invocations on the same file, no locking *)

Procs == {1, 2}

L_b == <<"b">>

\* the command lines the two invocations are started with
ConcCmds ==
    {[op |-> "add", args |-> WithLink(NoArgs, L_a)],
     [op |-> "add", args |-> WithLink(A_name, L_b)],
     [op |-> "edit", args |-> WithLink(A_name, L_a)],
     [op |-> "edit", args |-> WithLink(A_badrating, L_a)],
     [op |-> "rm", args |-> WithLink(NoArgs, L_a)]}

Idle == [pc |-> "start", cmd |-> [op |-> "none", args |-> NoArgs],
         seen |-> <<>>, data |-> <<>>, out |-> NoLast, wrote |-> <<>>]

\* args.func(args): the command after its load_data, on the catalog data it
\* read from the file content seen
RunCmd(cmd, data, seen, ai, t1, t2) ==
    CASE cmd.op = "add" -> AddLoaded(data, seen, cmd.args, TTY, ai, t1, t2)
      [] cmd.op = "edit" ->
           EditDomain(data, seen, cmd.args, SearchDomain(cmd.args["link"]), t1)
      [] cmd.op = "rm" -> RmData(data, seen, cmd.args, TTY)

InitConc ==
    /\ file \in {<<>>, Seed(<<>>, L_a)}
    /\ clock = 0
    /\ ops = 0
    /\ last = NoLast
    /\ prev = file
    /\ procs = [p \in Procs |-> Idle]
    /\ writer = 0

\* an invocation starts and reads the whole file
Load(p) ==
    /\ procs[p].pc = "start"
    /\ \E cmd \in ConcCmds :
         procs' = [procs EXCEPT ![p] = [pc |-> "loaded", cmd |-> cmd, seen |-> file,
                                        data |-> load_data(file), out |-> NoLast,
                                        wrote |-> <<>>]]
    /\ UNCHANGED <<file, clock, ops, last, prev, writer>>

\* the invocation works on what it read and, unless it ends in an error,
\* rewrites the whole file
Store(p, r, now) ==
    /\ file' = IF r.saved THEN WriteFile(file, r.file) ELSE file
    /\ writer' = IF r.saved THEN p ELSE writer
    /\ clock' = now
    /\ procs' = [procs EXCEPT ![p].pc = "done",
                              ![p].wrote = IF r.saved THEN r.file ELSE <<>>,
                              ![p].out = Record(procs[p].cmd.op, procs[p].cmd.args,
                                                TTY, r, <<>>)]
    /\ UNCHANGED <<ops, last, prev>>

Finish(p) ==
    /\ procs[p].pc = "loaded"
    /\ \E ai \in AiChoices(procs[p].cmd.args), d \in Ticks :
         Store(p, RunCmd(procs[p].cmd, procs[p].data, procs[p].seen, ai,
                         clock + d, clock + d),
               clock + d)

NextConc == \E p \in Procs : Load(p) \/ Finish(p)

SpecConc == InitConc /\ [][NextConc]_vars

----------------------------------------------------------------------------
(* Properties *)

StoredDomain(e) == extract_domain(e.link)

Mutating == {"add", "edit", "rm"}
ErrorResults == {"MissingInput", "DuplicateEntry", "NotFound", "ValueError"}

\* C1: the stored catalog holds at most one entry per domain, the domain of
\* an entry being extract_domain of its link.
C1_UniqueStoredDomains ==
    \A i, j \in 1..Len(file) :
        i # j => StoredDomain(file[i]) # StoredDomain(file[j])

\* C2: add is rejected as a duplicate whenever the stored catalog holds an
\* entry whose domain is the domain of the normalised input; the file is then
\* unchanged and the classifier is not called.
C2_DuplicateRejected ==
    (/\ last.op = "add"
     /\ last.link # <<>>
     /\ \E i \in 1..Len(prev) :
          StoredDomain(prev[i]) = extract_domain(normalize_url(last.link)))
    => (last.result = "DuplicateEntry" /\ file = prev /\ ~last.classified)

\* the test of find written out field by field
HasKeyword(e, kw) ==
    \/ Contains(lower(e.name), kw)
    \/ Contains(lower(e.link), kw)
    \/ Contains(lower(StoredDomain(e)), kw)
    \/ Contains(lower(e.description), kw)
    \/ Contains(lower(e.type), kw)
    \/ Contains(lower(join(<<" ">>, e.subtypes)), kw)
    \/ Contains(lower(join(<<" ">>, e.tags)), kw)
    \/ Contains(lower(join(<<" ">>, e.roles)), kw)

Expected(data, kw) == SelectSeq(data, LAMBDA e : HasKeyword(e, kw))

InRows(e, rows) == \E i \in 1..Len(rows) : rows[i] = e

\* rows are the entries of data holding kw, e among them iff it holds kw
AllMatches(rows, data, e, kw) ==
    /\ rows = Expected(data, kw)
    /\ InRows(e, rows) <=> HasKeyword(e, kw)

EditOption ==
    [name |-> "name", description |-> "desc", type |-> "type", subtypes |-> "sub",
     tags |-> "tags", roles |-> "roles", language |-> "lang", cost |-> "cost",
     requires_account |-> "account", api_available |-> "api"]

\* new differs from old in no field whose option was not given, and holds
\* the given name, description, type and cost
OnlySupplied(old, new, a) ==
    /\ \A k \in DOMAIN EditOption : ~Truthy(a, EditOption[k]) => new[k] = old[k]
    /\ ~Truthy(a, "rating") => new.metrics.rating = old.metrics.rating
    /\ ~Truthy(a, "rating_count") => new.metrics.rating_count = old.metrics.rating_count
    /\ new.link = old.link
    /\ new.data_types = old.data_types
    /\ new.date_collected = old.date_collected
    /\ \A k \in {"name", "description", "type", "cost"} :
         Truthy(a, EditOption[k]) => new[k] = a[EditOption[k]]

\* C4: a successful edit changes, in the stored catalog, only the fields of
\* the one entry whose options were given and non-empty, plus date_updated;
\* every other field and every other entry is as before.
C4_EditFrame ==
    (last.op = "edit" /\ last.result = "Updated")
    => /\ Len(file) = Len(prev)
       /\ \E i \in 1..Len(prev) :
            /\ \A j \in 1..Len(prev) : j # i => file[j] = prev[j]
            /\ OnlySupplied(prev[i], file[i], last.args)

\* C5: rm(x) leaves exactly the stored entries whose domain is not the
\* domain of x, in order, writes only when it removed one, and view on x
\* then reports NotFound.
C5_RmRemovesDomain ==
    (last.op = "rm" /\ last.link # <<>>)
    => /\ file = SelectSeq(prev, LAMBDA e : StoredDomain(e) # last.domain)
       /\ last.saved => Len(file) < Len(prev)
       /\ view_details(file, last.link).result = "NotFound"

RECURSIVE IsSubseq(_, _)
IsSubseq(s, t) ==
    IF Len(s) = 0 THEN TRUE
    ELSE IF Len(t) = 0 THEN FALSE
    ELSE IF s[1] = t[1] THEN IsSubseq(Tail(s), Tail(t))
    ELSE IsSubseq(s, Tail(t))

\* C6: with a non-decreasing clock, add and edit keep every existing entry
\* in place with its date_collected and a date_updated that is not smaller;
\* a successful edit stamps the current time; rm keeps the remaining entries
\* as they are read; find and view write nothing.
C6_DatesMonotone ==
    /\ last.op \in {"add", "edit"}
       => /\ Len(file) >= Len(prev)
          /\ \A i \in 1..Len(prev) :
               /\ file[i].date_collected = prev[i].date_collected
               /\ file[i].date_updated >= prev[i].date_updated
    /\ (last.op = "edit" /\ last.result = "Updated")
       => last.entry.date_updated = clock
    /\ (last.op = "add" /\ last.result = "Added")
       => /\ file[Len(file)].date_collected = last.entry.date_collected
          /\ file[Len(file)].date_updated = clock
    /\ last.op = "rm"
       => IF last.saved THEN IsSubseq(file, load_data(prev)) ELSE file = prev
    /\ last.op \in {"find", "view", "none"} => file = prev

\* C6 witness: a successful edit, at a later time, of an entry that keeps
\* its date_collected.
C6_EditedLater ==
    /\ last.op = "edit"
    /\ last.result = "Updated"
    /\ \E i \in 1..Len(prev) :
         /\ file[i].date_updated > prev[i].date_updated
         /\ file[i].date_collected = prev[i].date_collected
         /\ file[i].date_collected < file[i].date_updated

\* C7: an invocation of add, edit or rm that ends in an error (no
\* identifier, duplicate, not found, unparseable number) never reaches
\* save_data: the stored file is what it was.
C7_ErrorsKeepFile ==
    (last.op \in Mutating /\ last.result \in ErrorResults)
    => (file = prev /\ ~last.saved)

\* C7 witness: an edit given a new name and an unparseable rating, on an
\* entry that exists: the name is overwritten in memory, then float() fails.
C7_EditFailsAfterOverwrite ==
    /\ last.op = "edit"
    /\ last.result = "ValueError"
    /\ Truthy(last.args, "name")
    /\ Len(prev) > 0

\* C8: for a non-empty input s, normalize_url(s) starts with http:// or
\* https:// and has a non-empty host, so extract_domain of it is non-empty.
C8_HostNonEmpty ==
    (last.op \in {"add", "rm"} /\ last.link # <<>>)
    => /\ HasHttpPrefix(normalize_url(last.link))
       /\ urlparse(normalize_url(last.link)).netloc # <<>>
       /\ extract_domain(normalize_url(last.link)) # <<>>

AllDone == procs # <<>> /\ \A p \in Procs : procs[p].pc = "done"

Descriptive == {"name", "desc", "type", "sub", "tags", "roles", "lang", "cost",
                "account", "data_types", "api", "rating"}

\* C10: add calls the classifier exactly when no descriptive option was
\* given, so the tags, roles, language and cost the user gives are stored.
C10_ClassifierOnlyForBareLink ==
    (last.op = "add" /\ last.result = "Added")
    => /\ last.classified <=> \A k \in Descriptive : ~Truthy(last.args, k)
       /\ Truthy(last.args, "tags") => last.entry.tags = split(last.args["tags"], ",")
       /\ Truthy(last.args, "roles") => last.entry.roles = split(last.args["roles"], ",")
       /\ Truthy(last.args, "lang") => last.entry.language = last.args["lang"]
       /\ Truthy(last.args, "cost") => last.entry.cost = last.args["cost"]

====
